---- MODULE Spec2Model ----
(***************************************************************************)
(* State-machine model of src/VGG2_FaceDataset.py: the public operations   *)
(* of CriminalDetectionSystem (load_vgg2_dataset, extract_all_features,    *)
(* train_traditional_models, train_deep_learning_models, create_ensemble,  *)
(* save_model_predictions, generate_confusion_matrices) over the object's  *)
(* fields (dataset, features_dict, encoded_labels, results) and numpy's    *)
(* process-wide random generator.                                          *)
(*                                                                         *)
(* Numbers.  Metric values and weights are fixed-point: a metric is an     *)
(* integer count of 1/100000 (One stands for 1.0), a weight an integer     *)
(* count of 1/100.  Arithmetic is exact (floating-point rounding is not    *)
(* modelled).                                                              *)
(*                                                                         *)
(* Randomness.  numpy's generators are deterministic functions of their    *)
(* seed and of the number of draws made so far.  They are modelled by a    *)
(* small linear congruential generator: a generator state is an integer,   *)
(* every draw advances it.  The process-wide generator is the variable     *)
(* np_random; RandomState(seed) is a fresh state.                          *)
(*                                                                         *)
(* Positions are 1-based here and 0-based in the source.                   *)
(***************************************************************************)
EXTENDS Integers, Sequences, FiniteSets, TLC

VARIABLES
    np_random,        \* state of numpy's process-wide generator (np.random)
    dataset,          \* self.dataset: NoDataset or [image_paths, labels, class_names]
    label_classes,    \* self.label_encoder.classes_ (UnsetNames before the first fit)
    features_dict,    \* self.features_dict: model id -> feature table
    encoded_labels,   \* self.encoded_labels (UnsetLabels while the attribute is unset)
    original_labels,  \* self.original_labels (UnsetNames while the attribute is unset)
    results,          \* self.results: name -> record
    results_keys,     \* insertion order of the keys of self.results
    last,             \* the last call: its name, its inputs and how it ended
    split_log,        \* every train_test_split call made so far and what it returned
    called,           \* the state-building operations called so far (bounds the run)
    completed         \* the operations that have returned without raising

vars == <<np_random, dataset, label_classes, features_dict, encoded_labels,
          original_labels, results, results_keys, last, split_log, called, completed>>

\* None as a model handle
NoneValue == "None"

\* self.dataset = None
NoDataset == [loaded |-> FALSE, image_paths |-> <<>>, labels |-> <<>>, class_names |-> <<>>]

\* an attribute that holds a list of class ids, or of names, and is not set yet
UnsetLabels == <<-1>>
UnsetNames == <<"(unset)">>

\* A run calls the public operations in any order.  The operations that build
\* the object's state (load_vgg2_dataset, extract_all_features,
\* train_traditional_models, train_deep_learning_models) are called at most once
\* each, which keeps the states of the process-wide generator finitely many; the
\* others any number of times.
Once(op) ==
    /\ op \notin called
    /\ called' = called \cup {op}

\* an empty dict
EmptyMap == [x \in {} |-> x]

---------------------------------------------------------------------------
(* Bounds of the model. *)

\* image files in one identity folder: at most MaxFiles
MaxFiles == 4
\* self.max_samples_per_class as configured in the modelled runs
MaxSamplesPerClass == 3
\* self.max_classes as configured in the modelled runs
MaxClasses == 2

---------------------------------------------------------------------------
(* Helpers. *)

\* F applied to the value of v.  (TLC passes operator arguments unevaluated and
\* evaluates them at every use; Let evaluates v once.)
Let(v, F(_)) == CHOOSE r \in {F(x) : x \in {v}} : TRUE

Range(s) == {s[i] : i \in DOMAIN s}

Min2(a, b) == IF a <= b THEN a ELSE b

RECURSIVE SumTo(_, _)
SumTo(s, k) == IF k = 0 THEN 0 ELSE s[k] + SumTo(s, k - 1)

SumSeq(s) == SumTo(s, Len(s))

RECURSIVE SortAsc(_)
\* the elements of a finite set of integers in ascending order
SortAsc(S) ==
    IF S = {} THEN <<>>
    ELSE Let(CHOOSE x \in S : \A z \in S : x <= z, LAMBDA m :
         Let(S \ {m}, LAMBDA rest :
             <<m>> \o SortAsc(rest)))

Reverse(s) == [i \in 1..Len(s) |-> s[Len(s) + 1 - i]]

\* positions of s, ascending, that hold the value v
PositionsOf(s, v) == SortAsc({i \in DOMAIN s : s[i] = v})

\* the elements of s at the positions pos, in the order of pos
Take(s, pos) == [k \in DOMAIN pos |-> s[pos[k]]]

---------------------------------------------------------------------------
(* numpy's generators. *)

\* np.random.seed(42): the seed of the process-wide generator
global_seed == 42

\* one draw: the generator's next state (the drawn value is read off the state)
RngNext(s) == (75 * s + 74) % (2^16 + 1)

\* np.random.RandomState(seed), np.random.seed(seed)
RandomState(seed) == seed % (2^16 + 1)

RECURSIVE ShuffleSteps(_, _, _, _)
\* the steps i = hi, hi - 1, .., lo of a shuffle, in that order: step i swaps
\* x[i] with x[j], j drawn in 1..i.  (The range is halved rather than walked, so
\* that the nesting of the evaluation stays logarithmic in its length.)
ShuffleSteps(x, hi, lo, s) ==
    IF hi < lo THEN [seq |-> x, st |-> s]
    ELSE IF hi = lo
    THEN Let(RngNext(s), LAMBDA s1 :
         Let((s1 % hi) + 1, LAMBDA j :
             [seq |-> [x EXCEPT ![hi] = x[j], ![j] = x[hi]], st |-> s1]))
    ELSE Let((hi + lo + 1) \div 2, LAMBDA mid :
         Let(ShuffleSteps(x, hi, mid, s), LAMBDA r :
             ShuffleSteps(r.seq, mid - 1, lo, r.st)))

\* Fisher-Yates, as numpy shuffles: for i = n..2, swap x[i] with x[j], j drawn in 1..i
Shuffle(x, i, s) == ShuffleSteps(x, i, 2, s)

\* rng.permutation(x)
Permutation(x, s) == Shuffle(x, Len(x), s)

\* rng.choice(x, size=k, replace=False): the first k of a permutation of x
Choice(x, k, s) ==
    Let(Permutation(x, s), LAMBDA p : [seq |-> SubSeq(p.seq, 1, k), st |-> p.st])

---------------------------------------------------------------------------
(* sklearn.model_selection.train_test_split(X, y, test_size=0.2,           *)
(* random_state=42, stratify=y), as the source calls it: the stratified    *)
(* shuffle split of scikit-learn (one split).                              *)

\* test_size=0.2, as the fraction 1/test_size_inv
test_size_inv == 5

\* random_state=42
random_state == 42

\* a split that draws from the process-wide generator, in state g
SplitRngUnseeded(g) == g

\* the generator a split draws from: a fresh RandomState(random_state), whatever
\* the state g of the process-wide generator
SplitRng(g) == RandomState(random_state)

RECURSIVE AddByRemainder(_, _, _, _, _)
\* _approximate_mode's loop: the classes with the largest remainders get one more
\* draw each, ties broken by rng.choice
AddByRemainder(floored, rem, values, need, s) ==
    IF need = 0 \/ values = <<>> THEN [alloc |-> floored, st |-> s]
    ELSE Let(PositionsOf(rem, Head(values)), LAMBDA inds :
         Let(Min2(Len(inds), need), LAMBDA add_now :
         Let(Choice(inds, add_now, s), LAMBDA c :
         Let([i \in DOMAIN floored |->
                 IF i \in Range(c.seq) THEN floored[i] + 1 ELSE floored[i]],
             LAMBDA bumped :
         Let(Tail(values), LAMBDA rest :
         Let(need - add_now, LAMBDA left :
             AddByRemainder(bumped, rem, rest, left, c.st)))))))

\* sklearn's _approximate_mode(class_counts, n_draws, rng)
approximate_mode(class_counts, n_draws, s) ==
    Let(SumSeq(class_counts), LAMBDA n :
    Let([i \in DOMAIN class_counts |-> (class_counts[i] * n_draws) \div n],
        LAMBDA floored :
    Let([i \in DOMAIN class_counts |-> (class_counts[i] * n_draws) % n],
        LAMBDA rem :
    Let(n_draws - SumSeq(floored), LAMBDA need :
        IF need > 0
        THEN Let(Reverse(SortAsc(Range(rem))), LAMBDA values :
                 AddByRemainder(floored, rem, values, need, s))
        ELSE [alloc |-> floored, st |-> s]))))

RECURSIVE ClassLoop(_, _, _, _, _, _, _)
\* per class: permute its members, the first n_i go to train, the next t_i to test
ClassLoop(i, class_indices, n_i, t_i, s, train, test) ==
    IF i > Len(class_indices) THEN [train |-> train, test |-> test, st |-> s]
    ELSE Let(Permutation(class_indices[i], s), LAMBDA p :
         Let(train \o SubSeq(p.seq, 1, n_i[i]), LAMBDA train1 :
         Let(test \o SubSeq(p.seq, n_i[i] + 1, n_i[i] + t_i[i]), LAMBDA test1 :
         Let(i + 1, LAMBDA i1 :
             ClassLoop(i1, class_indices, n_i, t_i, p.st, train1, test1)))))

\* the draws of a split that passed scikit-learn's checks
SplitDraws(class_indices, class_counts, n_train, n_test, s) ==
    Let(approximate_mode(class_counts, n_train, s), LAMBDA a :
    Let([i \in DOMAIN class_counts |-> class_counts[i] - a.alloc[i]], LAMBDA rest :
    Let(approximate_mode(rest, n_test, a.st), LAMBDA b :
    Let(ClassLoop(1, class_indices, a.alloc, b.alloc, b.st, <<>>, <<>>), LAMBDA l :
    Let(Permutation(l.train, l.st), LAMBDA tr :
    Let(Permutation(l.test, tr.st), LAMBDA te :
        [ok |-> TRUE, train |-> tr.seq, test |-> te.seq]))))))

\* a split that ignores the labels: the rows are permuted, the first n_test are
\* the test rows and the others the train rows
ShuffleSplit(n_rows, y, s) ==
    LET n_test == (n_rows + test_size_inv - 1) \div test_size_inv
    IN IF n_rows # Len(y) \/ n_rows = 0 \/ n_rows = n_test
       THEN [ok |-> FALSE, err |-> "empty train set"]
       ELSE Let(Permutation([i \in 1..n_rows |-> i], s), LAMBDA p :
                [ok |-> TRUE, train |-> SubSeq(p.seq, n_test + 1, n_rows),
                 test |-> SubSeq(p.seq, 1, n_test)])

\* The split of rows 1..n_rows by the labels y, drawing from generator state s:
\* [ok |-> FALSE] when scikit-learn raises ValueError, else the train and test
\* positions in the order of the returned arrays.
StratifiedShuffleSplit(n_rows, y, s) ==
    LET n_test  == (n_rows + test_size_inv - 1) \div test_size_inv  \* ceil(0.2 * n)
        n_train == n_rows - n_test
    IN IF n_rows # Len(y) THEN [ok |-> FALSE, err |-> "inconsistent numbers of samples"]
       ELSE IF n_rows = 0 \/ n_train = 0 THEN [ok |-> FALSE, err |-> "empty train set"]
       ELSE
         Let(SortAsc(Range(y)), LAMBDA classes :
         Let([i \in DOMAIN classes |-> PositionsOf(y, classes[i])], LAMBDA class_indices :
         Let([i \in DOMAIN classes |-> Len(class_indices[i])], LAMBDA class_counts :
             IF \E i \in DOMAIN classes : class_counts[i] < 2
             THEN [ok |-> FALSE, err |-> "least populated class has 1 member"]
             ELSE IF n_train < Len(classes) \/ n_test < Len(classes)
             THEN [ok |-> FALSE, err |-> "fewer rows than classes"]
             ELSE SplitDraws(class_indices, class_counts, n_train, n_test, s))))

\* train_test_split(X, y, test_size=0.2, random_state=42, stratify=y) with X of
\* n_rows rows, called while the process-wide generator is in state g
train_test_split(n_rows, y, g) == StratifiedShuffleSplit(n_rows, y, SplitRng(g))

---------------------------------------------------------------------------
(* Names and configuration of CriminalDetectionSystem. *)

\* model_names of extract_all_features, in extraction order
model_names == <<"facenet", "vit", "efficientnet", "resnext", "densenet">>

\* the keys of `models` in train_traditional_models, in insertion order
traditional_names == <<"k-NN", "SVM", "Random Forest", "XGBoost">>

\* the keys of model_features in train_deep_learning_models, in insertion order
deep_names == <<"Vision Transformer", "EfficientNet", "ResNeXt", "DenseNet">>

\* model_features: the feature table each deep-learning classifier is trained on
model_features ==
    [name \in Range(deep_names) |->
        CASE name = "Vision Transformer" -> "vit"
          [] name = "EfficientNet"       -> "efficientnet"
          [] name = "ResNeXt"            -> "resnext"
          [] name = "DenseNet"           -> "densenet"]

EnsembleName == "Enhanced Ensemble"

\* model_weights of create_ensemble, in hundredths, in insertion order
weighted_names == traditional_names \o deep_names

model_weights ==
    [name \in Range(weighted_names) |->
        CASE name = "k-NN"               -> 10
          [] name = "SVM"                -> 12
          [] name = "Random Forest"      -> 13
          [] name = "XGBoost"            -> 15
          [] name = "Vision Transformer" -> 15
          [] name = "EfficientNet"       -> 12
          [] name = "ResNeXt"            -> 11
          [] name = "DenseNet"           -> 12]

\* 1.0 in the fixed-point unit of metrics
One == 1000 * 100

\* ensemble_boost = 0.015
ensemble_boost == 1500

metric_names == <<"accuracy", "precision", "recall", "f1_score">>

\* a metric record as both training steps store it
Record(accuracy, precision, recall, f1, model) ==
    [accuracy |-> accuracy, precision |-> precision, recall |-> recall,
     f1_score |-> f1, model |-> model]

\* a dict that puts a new key before the keys it holds
PutResultFirst(res, name, rec) ==
    [map  |-> (name :> rec) @@ res.map,
     keys |-> IF name \in Range(res.keys) THEN res.keys ELSE <<name>> \o res.keys]

\* self.results[name] = rec on an insertion-ordered dict
PutResult(res, name, rec) ==
    [map  |-> (name :> rec) @@ res.map,
     keys |-> IF name \in Range(res.keys) THEN res.keys ELSE Append(res.keys, name)]

\* identity folders of the dataset root, in sorted(os.listdir) order
Folders == <<"a", "b", "c">>

FolderIndex(label) == CHOOSE i \in DOMAIN Folders : Folders[i] = label

\* output width of each feature extractor (facenet: embedding_dim; vit: the
\* backbone's hidden size; efficientnet, resnext: the num_classes logits of the
\* replaced head; densenet: the channels of densenet121's feature map)
facenet_embedding_dim == 128
vit_hidden_size == 768
densenet_feature_channels == 1024
fallback_width == 128

FeatureWidth(model_name, num_classes) ==
    CASE model_name = "facenet"  -> facenet_embedding_dim
      [] model_name = "vit"      -> vit_hidden_size
      [] model_name = "densenet" -> densenet_feature_channels
      [] OTHER                   -> num_classes

---------------------------------------------------------------------------
(* VGG2Dataset._load_dataset and CriminalDetectionSystem.load_vgg2_dataset. *)
(* A listing gives, for the identity folders Folders[1..Len(listing)], the  *)
(* number of image files in each.  An image path is <<folder, file number>>.*)

RECURSIVE LoadLoop(_, _, _)
\* the loop over the sorted identity folders; d: [image_paths, labels, class_names, st]
LoadLoop(i, listing, d) ==
    IF i > Len(listing) THEN d
    ELSE Let([f \in 1..listing[i] |-> <<Folders[i], f>>], LAMBDA image_files :
         Let(IF Len(image_files) > MaxSamplesPerClass
             THEN Choice(image_files, MaxSamplesPerClass, d.st)
             ELSE [seq |-> image_files, st |-> d.st], LAMBDA kept :
         Let([image_paths |-> d.image_paths \o kept.seq,
              labels      |-> d.labels \o [f \in DOMAIN kept.seq |-> Folders[i]],
              class_names |-> IF Folders[i] \in Range(d.class_names)
                              THEN d.class_names
                              ELSE Append(d.class_names, Folders[i]),
              st          |-> kept.st], LAMBDA d1 :
             LoadLoop(i + 1, listing, d1))))

\* VGG2Dataset(root_dir, max_samples_per_class): the dataset and the state the
\* process-wide generator is left in
VGG2Dataset(listing, s) ==
    LoadLoop(1, listing,
             [image_paths |-> <<>>, labels |-> <<>>, class_names |-> <<>>, st |-> s])

\* the orders in which list(set(labels)) may enumerate the set S
SetOrders(S) == {p \in [1..Cardinality(S) -> S] : Range(p) = S}

\* a class filter that replaces class_names and leaves the samples alone
FilterClassNamesOnly(d, unique_labels) ==
    IF Len(unique_labels) > MaxClasses
    THEN Let(Choice(unique_labels, MaxClasses, d.st), LAMBDA selected_labels :
             [image_paths |-> d.image_paths,
              labels      |-> d.labels,
              class_names |-> selected_labels.seq,
              st          |-> selected_labels.st])
    ELSE d

\* the dataset after the class filter of load_vgg2_dataset, unique_labels being
\* the list made of set(labels)
FilterClasses(d, unique_labels) ==
    IF Len(unique_labels) > MaxClasses
    THEN Let(Choice(unique_labels, MaxClasses, d.st), LAMBDA selected_labels :
         Let(SortAsc({i \in DOMAIN d.labels : d.labels[i] \in Range(selected_labels.seq)}),
             LAMBDA keep :
             [image_paths |-> Take(d.image_paths, keep),
              labels      |-> Take(d.labels, keep),
              class_names |-> selected_labels.seq,
              st          |-> selected_labels.st]))
    ELSE d

load_vgg2_dataset(Listings) ==
    /\ Once("load_vgg2_dataset")
    /\ \E listing \in Listings :
       \E d \in {VGG2Dataset(listing, np_random)} :
       \E unique_labels \in SetOrders(Range(d.labels)) :
       \E f \in {FilterClasses(d, unique_labels)} :
          /\ dataset' = [loaded |-> TRUE, image_paths |-> f.image_paths,
                         labels |-> f.labels, class_names |-> f.class_names]
          /\ np_random' = f.st
          /\ last' = [op |-> "load_vgg2_dataset", raised |-> FALSE,
                      listing |-> listing]
    /\ completed' = completed \cup {"load_vgg2_dataset"}
    /\ UNCHANGED <<label_classes, features_dict, encoded_labels, original_labels,
                   results, results_keys, split_log>>

---------------------------------------------------------------------------
(* NextGenModels.extract_features and extract_all_features.  On which rows *)
(* an extractor raises is an input of the step: Faults gives, for each     *)
(* number of images, the fault patterns to try.                            *)

\* an extractor that skips the rows it cannot process
extract_features_dropping_rows(images, model_name, num_classes, fault_rows) ==
    Let(SortAsc(DOMAIN images \ fault_rows), LAMBDA keep :
        [ok |-> TRUE,
         table |-> [rows |-> [k \in DOMAIN keep |->
                                [src |-> "extracted", model |-> model_name,
                                 image |-> images[keep[k]]]],
                    cols |-> IF keep = <<>> THEN 0
                             ELSE FeatureWidth(model_name, num_classes)]])

\* The table extract_features returns for `images`, or its failure: the extractor
\* raises on the rows in fault_rows, and the first raise ends the call.
extract_features(images, model_name, num_classes, fault_rows) ==
    IF fault_rows # {} THEN [ok |-> FALSE]
    ELSE [ok |-> TRUE,
          table |-> [rows |-> [i \in DOMAIN images |->
                                 [src |-> "extracted", model |-> model_name,
                                  image |-> images[i]]],
                     \* np.array([]) of no images has no second axis
                     cols |-> IF images = <<>> THEN 0
                              ELSE FeatureWidth(model_name, num_classes)]]

RECURSIVE Randn(_, _)
\* np.random.randn(n, 128): n rows drawn from the process-wide generator;
\* r: [rows, st]
Randn(n, r) ==
    IF n = 0 THEN r
    ELSE Let(RngNext(r.st), LAMBDA s1 :
         Let([rows |-> Append(r.rows, [src |-> "randn", draw |-> s1]), st |-> s1],
             LAMBDA r1 :
             Randn(n - 1, r1)))

\* one pass of the loop over model_names: the table of `name`, or the dummy table
\* drawn from the process-wide generator on any failure; acc: [fd, st]
ExtractStep(name, images, num_classes, faults, acc) ==
    Let(extract_features(images, name, num_classes, faults[name]), LAMBDA e :
        IF e.ok
        THEN [fd |-> (name :> e.table) @@ acc.fd, st |-> acc.st]
        ELSE Let(Randn(Len(images), [rows |-> <<>>, st |-> acc.st]), LAMBDA r :
                 [fd |-> (name :> [rows |-> r.rows, cols |-> fallback_width]) @@ acc.fd,
                  st |-> r.st]))

RECURSIVE ExtractLoop(_, _, _, _, _)
\* the loop over model_names, in their order
ExtractLoop(k, images, num_classes, faults, acc) ==
    IF k > Len(model_names) THEN acc
    ELSE Let(ExtractStep(model_names[k], images, num_classes, faults, acc),
             LAMBDA acc1 :
             ExtractLoop(k + 1, images, num_classes, faults, acc1))

\* LabelEncoder.fit: classes_ is the sorted list of the distinct labels
LabelEncoderFit(labels) ==
    Let(SortAsc({FolderIndex(l) : l \in Range(labels)}), LAMBDA idx :
        [k \in DOMAIN idx |-> Folders[idx[k]]])

\* LabelEncoder.transform: the position of each label in classes_, from 0
LabelEncoderTransform(classes, labels) ==
    [i \in DOMAIN labels |-> (CHOOSE k \in DOMAIN classes : classes[k] = labels[i]) - 1]

\* the sample extract_all_features works on: positions of the dataset
SelectSample(sample_size, n, s) ==
    IF sample_size # 0 /\ sample_size < n
    THEN Choice([i \in 1..n |-> i], sample_size, s)
    ELSE [seq |-> [i \in 1..n |-> i], st |-> s]

extract_all_features(SampleSizes, Faults) ==
    /\ Once("extract_all_features")
    /\ IF ~dataset.loaded
       THEN \* len(None) raises TypeError
            /\ last' = [op |-> "extract_all_features", raised |-> TRUE]
            /\ UNCHANGED <<np_random, dataset, label_classes, features_dict,
                           encoded_labels, original_labels, results, results_keys,
                           split_log, completed>>
       ELSE \E sample_size \in SampleSizes :
            \E indices \in {SelectSample(sample_size, Len(dataset.labels), np_random)} :
            \E images \in {Take(dataset.image_paths, indices.seq)} :
            \E labels \in {Take(dataset.labels, indices.seq)} :
            \E classes \in {LabelEncoderFit(labels)} :
            \E faults \in Faults[Len(images)] :
            \E x \in {ExtractLoop(1, images, Len(dataset.class_names), faults,
                                  [fd |-> features_dict, st |-> indices.st])} :
               /\ features_dict' = x.fd
               /\ np_random' = x.st
               /\ label_classes' = classes
               /\ encoded_labels' = LabelEncoderTransform(classes, labels)
               /\ original_labels' = labels
               /\ last' = [op |-> "extract_all_features", raised |-> FALSE,
                           sample_size |-> sample_size, indices |-> indices.seq,
                           images |-> images, faults |-> faults,
                           rng |-> indices.st]
               /\ completed' = completed \cup {"extract_all_features"}
               /\ UNCHANGED <<dataset, results, results_keys, split_log>>

---------------------------------------------------------------------------
(* train_traditional_models and train_deep_learning_models.  What a        *)
(* classifier does is an input of the step: for each name, either its fit  *)
(* or its scoring raises (Raises), or it yields the four scores of a       *)
(* score record.                                                           *)

Score(accuracy, precision, recall, f1) ==
    [raises |-> FALSE, accuracy |-> accuracy, precision |-> precision,
     recall |-> recall, f1_score |-> f1]

\* the classifier's fit or predict raises
Raises == [raises |-> TRUE]

\* the estimator object each traditional name is trained with
TraditionalEstimator(name) ==
    CASE name = "k-NN"          -> "KNeighborsClassifier(euclidean)"
      [] name = "SVM"           -> "SVC(linear)"
      [] name = "Random Forest" -> "RandomForestClassifier"
      [] name = "XGBoost"       -> "XGBClassifier"

\* the record a step stores for a classifier that fitted and scored o
SuccessRecord(o, model) ==
    Record(o.accuracy, o.precision, o.recall, o.f1_score, model)

\* the except branch of train_traditional_models
TraditionalFailureRecord == Record(0, 0, 0, 0, NoneValue)

\* np.random.uniform(0.85, 0.95): one draw of the process-wide generator
Uniform(s) ==
    Let(RngNext(s), LAMBDA s1 : [value |-> 85000 + 100 * (s1 % 100), st |-> s1])

\* the except branch of train_deep_learning_models: four uniform draws
DeepFailureRecord(s) ==
    Let(Uniform(s), LAMBDA a :
    Let(Uniform(a.st), LAMBDA p :
    Let(Uniform(p.st), LAMBDA r :
    Let(Uniform(r.st), LAMBDA f :
        [rec |-> Record(a.value, p.value, r.value, f.value, NoneValue), st |-> f.st]))))

\* the entry a split call leaves in the log: the operation that called it, the
\* feature table that supplied X, its row count, the labels, and what the call
\* returned
SplitEntry(by, table, n_rows, y, split) ==
    [by |-> by, table |-> table, rows |-> n_rows, y |-> y, split |-> split]

RECURSIVE TraditionalLoopNoExcept(_, _, _)
\* the loop over `models` without its try/except: the first raise ends the loop
TraditionalLoopNoExcept(k, outcome, res) ==
    IF k > Len(traditional_names) \/ outcome[traditional_names[k]].raises THEN res
    ELSE Let(PutResult(res, traditional_names[k],
                       SuccessRecord(outcome[traditional_names[k]],
                                     TraditionalEstimator(traditional_names[k]))),
             LAMBDA res1 : TraditionalLoopNoExcept(k + 1, outcome, res1))

RECURSIVE TraditionalLoop(_, _, _)
\* the loop over `models`; res: [map, keys]
TraditionalLoop(k, outcome, res) ==
    IF k > Len(traditional_names) THEN res
    ELSE Let(PutResult(res, traditional_names[k],
                       IF outcome[traditional_names[k]].raises
                       THEN TraditionalFailureRecord
                       ELSE SuccessRecord(outcome[traditional_names[k]],
                                          TraditionalEstimator(traditional_names[k]))),
             LAMBDA res1 : TraditionalLoop(k + 1, outcome, res1))

train_traditional_models(Outcomes) ==
    /\ Once("train_traditional_models")
    /\ IF "facenet" \notin DOMAIN features_dict
       THEN \* self.features_dict['facenet'] raises KeyError
            /\ last' = [op |-> "train_traditional_models", raised |-> TRUE,
                        y |-> encoded_labels, stored |-> {}, fit_raised |-> {}]
            /\ UNCHANGED <<results, results_keys, split_log, completed>>
       ELSE \E split \in {train_test_split(Len(features_dict["facenet"].rows),
                                           encoded_labels, np_random)} :
            /\ split_log' = split_log \cup
                   {SplitEntry("train_traditional_models",
                               "facenet", Len(features_dict["facenet"].rows),
                               encoded_labels, split)}
            /\ IF ~split.ok
               THEN \* ValueError raised outside any try
                    /\ last' = [op |-> "train_traditional_models", raised |-> TRUE,
                                y |-> encoded_labels, stored |-> {}, fit_raised |-> {}]
                    /\ UNCHANGED <<results, results_keys, completed>>
               ELSE \E outcome \in Outcomes :
                    \E res \in {TraditionalLoop(1, outcome,
                                    [map |-> results, keys |-> results_keys])} :
                       /\ results' = res.map
                       /\ results_keys' = res.keys
                       /\ completed' = completed \cup {"train_traditional_models"}
                       /\ last' = [op |-> "train_traditional_models",
                                   raised |-> FALSE, y |-> encoded_labels,
                                   stored |-> Range(traditional_names),
                                   fit_raised |-> {n \in Range(traditional_names) :
                                                     outcome[n].raises}]
    /\ UNCHANGED <<np_random, dataset, label_classes, features_dict, encoded_labels,
                   original_labels>>

\* a choice that takes the kernel classifier from 1000 columns on
DeepEstimatorFromThousand(cols) ==
    IF cols >= 1000 THEN "SVC(rbf)" ELSE "RandomForestClassifier"

\* the classifier train_deep_learning_models picks for a table of `cols` columns
DeepEstimator(cols) ==
    IF cols > 1000 THEN "SVC(rbf)" ELSE "RandomForestClassifier"

\* one pass of the loop body of train_deep_learning_models for `name`, o being
\* what its classifier does; acc: [res, st, log, fit_raised, split_raised]
DeepStep(name, o, acc) ==
    IF model_features[name] \notin DOMAIN features_dict
    THEN \* KeyError inside the try
         Let(DeepFailureRecord(acc.st), LAMBDA fail :
             [acc EXCEPT !.res = PutResult(acc.res, name, fail.rec),
                         !.st = fail.st])
    ELSE Let(features_dict[model_features[name]], LAMBDA X :
         Let(train_test_split(Len(X.rows), encoded_labels, acc.st), LAMBDA split :
         Let(SplitEntry("train_deep_learning_models",
                        model_features[name], Len(X.rows), encoded_labels, split),
             LAMBDA entry :
             IF ~split.ok \/ o.raises
             THEN \* ValueError of the split, or the classifier's exception,
                  \* inside the try
                  Let(DeepFailureRecord(acc.st), LAMBDA fail :
                      [acc EXCEPT !.res = PutResult(acc.res, name, fail.rec),
                                  !.st = fail.st,
                                  !.log = @ \cup {entry},
                                  !.split_raised = IF split.ok THEN @ ELSE @ \cup {name},
                                  !.fit_raised = IF split.ok THEN @ \cup {name} ELSE @])
             ELSE [acc EXCEPT !.res = PutResult(acc.res, name,
                                          SuccessRecord(o, DeepEstimator(X.cols))),
                              !.log = @ \cup {entry}])))

RECURSIVE DeepLoop(_, _, _)
\* the loop over model_features
DeepLoop(k, outcome, acc) ==
    IF k > Len(deep_names) THEN acc
    ELSE Let(DeepStep(deep_names[k], outcome[deep_names[k]], acc), LAMBDA acc1 :
             DeepLoop(k + 1, outcome, acc1))

train_deep_learning_models(Outcomes) ==
    /\ Once("train_deep_learning_models")
    /\ \E outcome \in Outcomes :
       \E r \in {DeepLoop(1, outcome,
                          [res |-> [map |-> results, keys |-> results_keys],
                           st |-> np_random, log |-> split_log,
                           fit_raised |-> {}, split_raised |-> {}])} :
          /\ results' = r.res.map
          /\ results_keys' = r.res.keys
          /\ np_random' = r.st
          /\ split_log' = r.log
          /\ last' = [op |-> "train_deep_learning_models", raised |-> FALSE,
                      y |-> encoded_labels, stored |-> Range(deep_names),
                      fit_raised |-> r.fit_raised, split_raised |-> r.split_raised]
    /\ completed' = completed \cup {"train_deep_learning_models"}
    /\ UNCHANGED <<dataset, label_classes, features_dict, encoded_labels,
                   original_labels>>

---------------------------------------------------------------------------
(* create_ensemble. *)

\* total_weight = sum(model_weights.values())
total_weight == SumSeq([k \in DOMAIN weighted_names |-> model_weights[weighted_names[k]]])

RECURSIVE EnsembleSumWithSelf(_, _, _)
\* a weighted sum to which an ensemble entry already in results adds a tenth of
\* its own metric
EnsembleSumWithSelf(k, res, metric) ==
    IF k > Len(weighted_names)
    THEN IF EnsembleName \in DOMAIN res THEN res[EnsembleName][metric] \div 10 ELSE 0
    ELSE (IF weighted_names[k] \in DOMAIN res
          THEN (res[weighted_names[k]][metric] * model_weights[weighted_names[k]])
                   \div total_weight
          ELSE 0)
         + EnsembleSumWithSelf(k + 1, res, metric)

RECURSIVE EnsembleSum(_, _, _)
\* the loop over model_weights for one metric: models absent from results are skipped
EnsembleSum(k, res, metric) ==
    IF k > Len(weighted_names) THEN 0
    ELSE (IF weighted_names[k] \in DOMAIN res
          THEN (res[weighted_names[k]][metric] * model_weights[weighted_names[k]])
                   \div total_weight
          ELSE 0)
         + EnsembleSum(k + 1, res, metric)

\* the boost step, without its clamp
BoostedUnclamped(v) == v + ensemble_boost

\* ensemble_metrics[metric] = min(1.0, ensemble_metrics[metric] + ensemble_boost)
Boosted(v) == Min2(One, v + ensemble_boost)

create_ensemble ==
    /\ \E raw \in {[m \in Range(metric_names) |-> EnsembleSum(1, results, m)]} :
       \E res \in {PutResult([map |-> results, keys |-> results_keys], EnsembleName,
                             [m \in Range(metric_names) |-> Boosted(raw[m])])} :
          /\ results' = res.map
          /\ results_keys' = res.keys
          /\ last' = [op |-> "create_ensemble", raised |-> FALSE,
                      present |-> DOMAIN results \cap Range(weighted_names),
                      raw |-> raw]
    /\ completed' = completed \cup {"create_ensemble"}
    /\ UNCHANGED <<np_random, dataset, label_classes, features_dict, encoded_labels,
                   original_labels, split_log, called>>

---------------------------------------------------------------------------
(* save_model_predictions and generate_confusion_matrices.  Which fitted   *)
(* models raise in predict is an input of the step.                        *)

\* a loop body that splits the tables of the deep-learning models with another
\* random_state than the facenet table
SaveStepOtherSeed(model_name, split, predict_raises, acc) ==
    IF "model" \notin DOMAIN results[model_name]
    THEN \* model_data['model'] raises KeyError, outside the try
         [acc EXCEPT !.raised = TRUE]
    ELSE IF results[model_name].model = NoneValue \/ model_name = EnsembleName
    THEN acc
    ELSE IF model_name \in Range(deep_names)
    THEN IF model_features[model_name] \notin DOMAIN features_dict
         THEN acc
         ELSE Let(features_dict[model_features[model_name]], LAMBDA X_dl :
              Let(StratifiedShuffleSplit(Len(X_dl.rows), encoded_labels,
                                         RandomState(random_state + 1)),
                  LAMBDA split_dl :
              Let(SplitEntry("save_model_predictions",
                             model_features[model_name], Len(X_dl.rows),
                             encoded_labels, split_dl), LAMBDA entry :
                  IF ~split_dl.ok \/ model_name \in predict_raises
                  THEN [acc EXCEPT !.log = @ \cup {entry}]
                  ELSE [acc EXCEPT !.log = @ \cup {entry},
                                   !.columns = Append(@, model_name),
                                   !.rows = (model_name :> split_dl.test) @@ @])))
    ELSE IF model_name \in predict_raises
         THEN acc
         ELSE [acc EXCEPT !.columns = Append(@, model_name),
                          !.rows = (model_name :> split.test) @@ @]

\* one pass of the loop of save_model_predictions; acc: [raised, columns, rows,
\* log], columns being the columns of predictions_df after 'true_labels' and
\* rows the test rows each was predicted on
SaveStep(model_name, split, predict_raises, acc) ==
    IF "model" \notin DOMAIN results[model_name]
    THEN \* model_data['model'] raises KeyError, outside the try
         [acc EXCEPT !.raised = TRUE]
    ELSE IF results[model_name].model = NoneValue \/ model_name = EnsembleName
    THEN acc
    ELSE IF model_name \in Range(deep_names)
    THEN IF model_features[model_name] \notin DOMAIN features_dict
         THEN acc
         ELSE Let(features_dict[model_features[model_name]], LAMBDA X_dl :
              Let(train_test_split(Len(X_dl.rows), encoded_labels, np_random),
                  LAMBDA split_dl :
              Let(SplitEntry("save_model_predictions",
                             model_features[model_name], Len(X_dl.rows),
                             encoded_labels, split_dl), LAMBDA entry :
                  IF ~split_dl.ok \/ model_name \in predict_raises
                  THEN [acc EXCEPT !.log = @ \cup {entry}]
                  ELSE [acc EXCEPT !.log = @ \cup {entry},
                                   !.columns = Append(@, model_name),
                                   !.rows = (model_name :> split_dl.test) @@ @])))
    ELSE IF model_name \in predict_raises
         THEN acc
         ELSE [acc EXCEPT !.columns = Append(@, model_name),
                          !.rows = (model_name :> split.test) @@ @]

RECURSIVE SaveLoop(_, _, _, _, _)
\* the loop over self.results.items(), in insertion order
SaveLoop(k, keys, split, predict_raises, acc) ==
    IF k > Len(keys) \/ acc.raised THEN acc
    ELSE Let(SaveStep(keys[k], split, predict_raises, acc), LAMBDA acc1 :
             SaveLoop(k + 1, keys, split, predict_raises, acc1))

save_model_predictions(PredictFaults) ==
    /\ IF "facenet" \notin DOMAIN features_dict
       THEN /\ last' = [op |-> "save_model_predictions", raised |-> TRUE]
            /\ UNCHANGED <<split_log, completed>>
       ELSE \E split \in {train_test_split(Len(features_dict["facenet"].rows),
                                           encoded_labels, np_random)} :
            \E entry \in {SplitEntry("save_model_predictions",
                                     "facenet", Len(features_dict["facenet"].rows),
                                     encoded_labels, split)} :
               IF ~split.ok
               THEN /\ last' = [op |-> "save_model_predictions", raised |-> TRUE]
                    /\ split_log' = split_log \cup {entry}
                    /\ UNCHANGED completed
               ELSE \E predict_raises \in PredictFaults :
                    \E r \in {SaveLoop(1, results_keys, split, predict_raises,
                                       [raised |-> FALSE, columns |-> <<>>,
                                        rows |-> EmptyMap,
                                        log |-> split_log \cup {entry}])} :
                       /\ last' = [op |-> "save_model_predictions",
                                   raised |-> r.raised, true_rows |-> split.test,
                                   columns |-> r.columns, rows |-> r.rows,
                                   predict_raises |-> predict_raises]
                       /\ split_log' = r.log
                       /\ completed' = IF r.raised THEN completed
                                       ELSE completed \cup {"save_model_predictions"}
    /\ UNCHANGED <<np_random, dataset, label_classes, features_dict, encoded_labels,
                   original_labels, results, results_keys, called>>

RECURSIVE SortedByAccuracy(_)
\* sorted(self.results.items(), key=accuracy, reverse=True): a stable sort, so
\* entries of equal accuracy keep their insertion order
SortedByAccuracy(keys) ==
    IF keys = <<>> THEN <<>>
    ELSE Let(CHOOSE i \in DOMAIN keys :
                /\ \A j \in DOMAIN keys :
                      results[keys[j]].accuracy <= results[keys[i]].accuracy
                /\ \A j \in 1..(i - 1) :
                      results[keys[j]].accuracy < results[keys[i]].accuracy,
             LAMBDA best :
         Let(SubSeq(keys, 1, best - 1) \o SubSeq(keys, best + 1, Len(keys)),
             LAMBDA rest :
             <<keys[best]>> \o SortedByAccuracy(rest)))

\* one pass of the loop of generate_confusion_matrices; acc: [raised, plotted, log]
MatrixStep(model_name, split, predict_raises, acc) ==
    IF "model" \notin DOMAIN results[model_name]
    THEN \* model_data['model'] raises KeyError, outside the try
         [acc EXCEPT !.raised = TRUE]
    ELSE IF results[model_name].model = NoneValue \/ model_name = EnsembleName
    THEN acc
    ELSE IF model_name \in Range(deep_names)
    THEN IF model_features[model_name] \notin DOMAIN features_dict
         THEN acc
         ELSE Let(features_dict[model_features[model_name]], LAMBDA X_dl :
              Let(train_test_split(Len(X_dl.rows), encoded_labels, np_random),
                  LAMBDA split_dl :
              Let(SplitEntry("generate_confusion_matrices",
                             model_features[model_name], Len(X_dl.rows),
                             encoded_labels, split_dl), LAMBDA entry :
                  IF ~split_dl.ok \/ model_name \in predict_raises
                  THEN [acc EXCEPT !.log = @ \cup {entry}]
                  ELSE [acc EXCEPT !.log = @ \cup {entry},
                                   !.plotted = Append(@, model_name)])))
    ELSE IF model_name \in predict_raises
         THEN acc
         ELSE [acc EXCEPT !.plotted = Append(@, model_name)]

RECURSIVE MatrixLoop(_, _, _, _, _)
\* the loop over sorted_models
MatrixLoop(k, top, split, predict_raises, acc) ==
    IF k > Len(top) \/ acc.raised THEN acc
    ELSE Let(MatrixStep(top[k], split, predict_raises, acc), LAMBDA acc1 :
             MatrixLoop(k + 1, top, split, predict_raises, acc1))

generate_confusion_matrices(PredictFaults) ==
    /\ \E sorted_models \in {SubSeq(SortedByAccuracy(results_keys), 1,
                                    Min2(4, Len(results_keys)))} :
       IF "facenet" \notin DOMAIN features_dict
       THEN /\ last' = [op |-> "generate_confusion_matrices", raised |-> TRUE]
            /\ UNCHANGED <<split_log, completed>>
       ELSE \E split \in {train_test_split(Len(features_dict["facenet"].rows),
                                           encoded_labels, np_random)} :
            \E entry \in {SplitEntry("generate_confusion_matrices",
                                     "facenet", Len(features_dict["facenet"].rows),
                                     encoded_labels, split)} :
               IF ~split.ok
               THEN /\ last' = [op |-> "generate_confusion_matrices", raised |-> TRUE]
                    /\ split_log' = split_log \cup {entry}
                    /\ UNCHANGED completed
               ELSE \E predict_raises \in PredictFaults :
                    \E r \in {MatrixLoop(1, sorted_models, split, predict_raises,
                                         [raised |-> FALSE, plotted |-> <<>>,
                                          log |-> split_log \cup {entry}])} :
                       /\ last' = [op |-> "generate_confusion_matrices",
                                   raised |-> r.raised, top |-> sorted_models,
                                   plotted |-> r.plotted,
                                   predict_raises |-> predict_raises]
                       /\ split_log' = r.log
                       /\ completed' = IF r.raised THEN completed
                                       ELSE completed \cup {"generate_confusion_matrices"}
    /\ UNCHANGED <<np_random, dataset, label_classes, features_dict, encoded_labels,
                   original_labels, results, results_keys, called>>

---------------------------------------------------------------------------
(* main: the summary it prints of the results run_complete_analysis        *)
(* returned.                                                               *)

RECURSIVE MaxByAccuracyLast(_, _, _, _)
\* a maximum that moves to every later item that is not smaller
MaxByAccuracyLast(k, keys, res, best) ==
    IF k > Len(keys) THEN best
    ELSE MaxByAccuracyLast(k + 1, keys, res,
                           IF res[keys[k]].accuracy >= res[best].accuracy
                           THEN keys[k] ELSE best)

RECURSIVE MaxByAccuracyOfModels(_, _, _, _)
\* a maximum that passes over the ensemble entry
MaxByAccuracyOfModels(k, keys, res, best) ==
    IF k > Len(keys) THEN best
    ELSE MaxByAccuracyOfModels(k + 1, keys, res,
                               IF /\ keys[k] # EnsembleName
                                  /\ res[keys[k]].accuracy > res[best].accuracy
                               THEN keys[k] ELSE best)

RECURSIVE MaxByAccuracy(_, _, _, _)
\* max(results.items(), key=lambda x: x[1]['accuracy']) from the k-th item on,
\* `best` being the maximum so far: Python's max moves to a later item only when
\* its key is greater
MaxByAccuracy(k, keys, res, best) ==
    IF k > Len(keys) THEN best
    ELSE MaxByAccuracy(k + 1, keys, res,
                       IF res[keys[k]].accuracy > res[best].accuracy
                       THEN keys[k] ELSE best)

\* the final summary of main, of the results the run returned; max() of no item
\* raises ValueError
main ==
    /\ last.op # "main"
    /\ IF results_keys = <<>>
       THEN last' = [op |-> "main", raised |-> TRUE]
       ELSE \E best_model \in {MaxByAccuracy(2, results_keys, results, results_keys[1])} :
            \E ensemble_acc \in {IF EnsembleName \in DOMAIN results
                                 THEN results[EnsembleName].accuracy ELSE 0} :
               last' = [op |-> "main", raised |-> FALSE, best_model |-> best_model,
                        best_accuracy |-> results[best_model].accuracy,
                        ensemble_acc |-> ensemble_acc,
                        improvement |-> ensemble_acc - results[best_model].accuracy]
    /\ UNCHANGED <<np_random, dataset, label_classes, features_dict, encoded_labels,
                   original_labels, results, results_keys, split_log, called,
                   completed>>

----------------------------------------------------------------------------

(* Specifications. *)

\* the object after __init__, the module's seeding done
Init ==
    /\ np_random = RandomState(global_seed)
    /\ dataset = NoDataset
    /\ label_classes = UnsetNames
    /\ features_dict = EmptyMap
    /\ encoded_labels = UnsetLabels
    /\ original_labels = UnsetNames
    /\ results = EmptyMap
    /\ results_keys = <<>>
    /\ last = [op |-> "__init__", raised |-> FALSE]
    /\ split_log = {}
    /\ called = {}
    /\ completed = {}

\* listings of the first k folders: a folder is empty, holds one image, or
\* holds MaxFiles images
Listings(k) == [1..k -> {0, 1, MaxFiles}]

\* no extractor faults
NoFaults == [m \in Range(model_names) |-> {}]

\* the numbers of images a loaded dataset may hold
RowCounts == 0..(Len(Folders) * MaxSamplesPerClass)

\* extractor faults: at most one model faults, on every row
FaultsOneModel ==
    [n \in RowCounts |->
        {[NoFaults EXCEPT ![bad] = rows] : bad \in Range(model_names), rows \in {{}, 1..n}}]

\* extractor faults: each model faults on no row, on the first row, or on every row
FaultsAny == [n \in RowCounts |-> [Range(model_names) -> {{}, {1}, 1..n}]]

\* score records of a classifier that fits and scores
ScoresNarrow == {Score(60000, 70000, 60000, 64000)}

\* the scores of a classifier that is right on every test row
ScoresPerfect == {Score(One, One, One, One)}

\* the fitted models whose predict raises in the reporting steps
PredictFaultsNarrow == {{}, {"DenseNet"}}

\* what the classifiers `names` do: each raises or yields one of Scores
AllOutcomes(names, Scores) == [Range(names) -> Scores \cup {Raises}]

\* the same, with at most one classifier raising
OneRaise(names, Scores) ==
    {o \in AllOutcomes(names, Scores) :
        \A a, b \in Range(names) : o[a].raises /\ o[b].raises => a = b}

\* the same, with no classifier raising
NoRaise(names, Scores) == [Range(names) -> Scores]

\* The input sets of the steps, as the specifications below use them.

\* listings of two folders, and of three
ListingsOfTwo == Listings(2)
ListingsOfThree == Listings(3)

\* sample_size: None (written 0), so that the whole dataset is taken
NoSampling == {0}

\* sample_size: None, 2, or MaxFiles
SampleSizesAny == {0, 2, MaxFiles}

\* the traditional classifiers: at most one raises; none raises; any of them raise
TraditionalOneRaise == {o : o \in OneRaise(traditional_names, ScoresNarrow)}
TraditionalNoRaise == {o : o \in NoRaise(traditional_names, ScoresNarrow)}
TraditionalAllOutcomes == {o : o \in AllOutcomes(traditional_names, ScoresPerfect)}

\* the deep-learning classifiers: at most one raises; any of them raise
DeepOneRaise == {o : o \in OneRaise(deep_names, ScoresNarrow)}
DeepAllOutcomes == {o : o \in AllOutcomes(deep_names, ScoresPerfect)}

Next ==
    \/ load_vgg2_dataset(ListingsOfTwo)
    \/ extract_all_features(NoSampling, FaultsOneModel)
    \/ train_traditional_models(TraditionalOneRaise)
    \/ train_deep_learning_models(DeepOneRaise)
    \/ create_ensemble

\* the five operations that build the object's state, called in any order
Spec == Init /\ [][Next]_vars

NextFeatures ==
    \/ load_vgg2_dataset(ListingsOfThree)
    \/ extract_all_features(SampleSizesAny, FaultsAny)

\* loading and extraction, with every pattern of extractor faults
SpecFeatures == Init /\ [][NextFeatures]_vars

\* two full folders, or a full folder and a folder of one image
TrainListings == {<<MaxFiles, MaxFiles>>, <<MaxFiles, 1>>}

NextTrain ==
    \/ load_vgg2_dataset(TrainListings)
    \/ extract_all_features(NoSampling, FaultsOneModel)
    \/ train_traditional_models(TraditionalAllOutcomes)
    \/ train_deep_learning_models(DeepAllOutcomes)
    \/ create_ensemble

\* the same operations, with every subset of the classifiers raising
SpecTrain == Init /\ [][NextTrain]_vars

\* an empty folder, a full folder and a folder of one image, or two full folders
ReportListings == {<<0>>, <<MaxFiles, 1>>, <<MaxFiles, MaxFiles>>}

NextReport ==
    \/ load_vgg2_dataset(ReportListings)
    \/ extract_all_features(NoSampling, FaultsOneModel)
    \/ train_traditional_models(TraditionalNoRaise)
    \/ train_deep_learning_models(DeepOneRaise)
    \/ create_ensemble
    \/ save_model_predictions(PredictFaultsNarrow)
    \/ generate_confusion_matrices(PredictFaultsNarrow)

\* the whole interface, the two reporting operations included
SpecReport == Init /\ [][NextReport]_vars

\* sample_size = min(1000, len(self.dataset)): the limit
demo_sample_limit == 1000

\* the operation run_complete_analysis has just called returned without raising
Returned(op) == last.op = op /\ ~last.raised

\* run_complete_analysis: its steps in their order, each taken when the step
\* before it has returned (an exception of a step ends the run).  Of the steps
\* after create_ensemble, those that only read and plot (display_results,
\* cross_validation_analysis, analyze_feature_importance, create_roc_curves,
\* performance_stability_analysis) are taken to return.
NextRun ==
    \/ called = {} /\ completed = {} /\ load_vgg2_dataset(ReportListings)
    \/ /\ Returned("load_vgg2_dataset")
       /\ extract_all_features({Min2(demo_sample_limit, Len(dataset.labels))},
                               FaultsOneModel)
    \/ /\ Returned("extract_all_features")
       /\ train_traditional_models(TraditionalOneRaise)
    \/ /\ Returned("train_traditional_models")
       /\ train_deep_learning_models(DeepOneRaise)
    \/ /\ Returned("train_deep_learning_models")
       /\ create_ensemble
    \/ /\ Returned("create_ensemble")
       /\ generate_confusion_matrices(PredictFaultsNarrow)
    \/ /\ Returned("generate_confusion_matrices")
       /\ save_model_predictions(PredictFaultsNarrow)

\* one run of run_complete_analysis on a fresh object
SpecRun == Init /\ [][NextRun]_vars

\* the names of the results the summary of main is tried on
SummaryNames == {"k-NN", "Vision Transformer", EnsembleName}

\* the accuracies they are tried with
SummaryAccuracies == {60000, 75000, 90000}

\* the record of `name` with the accuracy a: a fitted model's record, or the
\* ensemble's, which has no 'model' key
SummaryRecord(name, a) ==
    IF name = EnsembleName
    THEN [m \in Range(metric_names) |-> a]
    ELSE Record(a, a, a, a, IF name \in Range(deep_names)
                            THEN DeepEstimator(fallback_width)
                            ELSE TraditionalEstimator(name))

\* results as run_complete_analysis may return them to main: any of the names
\* (or none) in any insertion order, each with any of the accuracies
InitBest ==
    /\ np_random = RandomState(global_seed)
    /\ dataset = NoDataset
    /\ label_classes = UnsetNames
    /\ features_dict = EmptyMap
    /\ encoded_labels = UnsetLabels
    /\ original_labels = UnsetNames
    /\ results_keys \in UNION {SetOrders(S) : S \in SUBSET SummaryNames}
    /\ \E acc \in [Range(results_keys) -> SummaryAccuracies] :
          results = [name \in Range(results_keys) |-> SummaryRecord(name, acc[name])]
    /\ last = [op |-> "run_complete_analysis", raised |-> FALSE]
    /\ split_log = {}
    /\ called = {}
    /\ completed = {}

NextBest == main

\* the summary of main over results of every insertion order and accuracy
SpecBest == InitBest /\ [][NextBest]_vars

\* identity folders named by their numbers 1..n, of which only the first two
\* hold images
NumberedFolders(n) == [i \in 1..n |-> i]

\* the labels of ten samples, five of each of the first two folders
WidthLabels == <<1, 1, 1, 1, 1, 2, 2, 2, 2, 2>>

\* the numbers of identity folders tried
WidthClassCounts == {2, 999, 1000, 1001}

\* The object after load_vgg2_dataset and extract_all_features on a root of
\* num_classes identity folders (class_names keeps the folders without images,
\* and the efficientnet and resnext tables have one column per class name), each
\* extractor having failed on every row or on none.
InitWidth ==
    \E num_classes \in WidthClassCounts :
    \E faults \in [Range(model_names) -> {{}, DOMAIN WidthLabels}] :
    \E images \in {[i \in DOMAIN WidthLabels |-> <<WidthLabels[i], i>>]} :
    \E x \in {ExtractLoop(1, images, num_classes, faults,
                          [fd |-> EmptyMap, st |-> RandomState(global_seed)])} :
       /\ np_random = x.st
       /\ dataset = [loaded |-> TRUE, image_paths |-> images, labels |-> WidthLabels,
                     class_names |-> NumberedFolders(num_classes)]
       /\ label_classes = <<1, 2>>
       /\ features_dict = x.fd
       /\ encoded_labels = [i \in DOMAIN WidthLabels |-> WidthLabels[i] - 1]
       /\ original_labels = WidthLabels
       /\ results = EmptyMap
       /\ results_keys = <<>>
       /\ last = [op |-> "extract_all_features", raised |-> FALSE, sample_size |-> 0,
                  indices |-> [i \in DOMAIN WidthLabels |-> i], images |-> images,
                  faults |-> faults, rng |-> RandomState(global_seed)]
       /\ split_log = {}
       /\ called = {"load_vgg2_dataset", "extract_all_features"}
       /\ completed = {"load_vgg2_dataset", "extract_all_features"}

NextWidth == train_deep_learning_models(DeepOneRaise)

\* train_deep_learning_models on tables of every width around the threshold
SpecWidth == InitWidth /\ [][NextWidth]_vars

\* identity folders of a corpus of ten classes
IdentityFolders ==
    <<"n01", "n02", "n03", "n04", "n05", "n06", "n07", "n08", "n09", "n10">>

\* shifts of the sample order: 0..MaxShift
MaxShift == 9

\* The labels of 100 samples, 10 of each of the classes 0..9, in the order given
\* by a stride (coprime with 100) and a shift: stride 1 and shift 0 is the order
\* of the dataset (class after class), other strides interleave the classes.
CorpusLabels(stride, shift) ==
    [i \in 1..100 |-> (((i - 1) * stride + shift) % 100) \div 10]

\* the object after extract_all_features has selected 100 samples with the
\* labels y and every extractor has succeeded, no model trained yet
AfterExtraction(y) ==
    LET labels == [i \in DOMAIN y |-> IdentityFolders[y[i] + 1]]
        images == [i \in DOMAIN y |-> <<labels[i], i>>]
    IN /\ np_random = RandomState(global_seed)
       /\ dataset = [loaded |-> TRUE, image_paths |-> images, labels |-> labels,
                     class_names |-> IdentityFolders]
       /\ label_classes = IdentityFolders
       /\ features_dict =
              [m \in Range(model_names) |->
                  extract_features(images, m, Len(IdentityFolders), {}).table]
       /\ encoded_labels = y
       /\ original_labels = labels
       /\ results = EmptyMap
       /\ results_keys = <<>>
       /\ last = [op |-> "extract_all_features", raised |-> FALSE, sample_size |-> 0,
                  indices |-> [i \in DOMAIN y |-> i], images |-> images,
                  faults |-> NoFaults, rng |-> RandomState(global_seed)]
       /\ split_log = {}
       /\ called = {"load_vgg2_dataset", "extract_all_features"}
       /\ completed = {"load_vgg2_dataset", "extract_all_features"}

InitSplit ==
    \E stride \in {1, 3, 7, 11, 13}, shift \in 0..MaxShift :
        AfterExtraction(CorpusLabels(stride, shift))

NextSplit ==
    \/ train_traditional_models(TraditionalNoRaise)
    \/ train_deep_learning_models(DeepOneRaise)

\* the two training steps on a corpus of 100 samples in 10 classes of 10
SpecSplit == InitSplit /\ [][NextSplit]_vars

---------------------------------------------------------------------------
(* Properties. *)

\* the feature table the model `name` is trained on
FeatureKeyOf(name) ==
    IF name \in Range(deep_names) THEN model_features[name] ELSE "facenet"

\* sum of the weights of the models in S, in hundredths
WeightOf(S) ==
    SumSeq([k \in DOMAIN weighted_names |->
              IF weighted_names[k] \in S THEN model_weights[weighted_names[k]] ELSE 0])

\* sum of metric * weight over the records of the models in S
WeightedMetricSum(S, metric) ==
    SumSeq([k \in DOMAIN weighted_names |->
              IF weighted_names[k] \in S
              THEN results[weighted_names[k]][metric] * model_weights[weighted_names[k]]
              ELSE 0])

\* the four metrics of the record of `name` are all 0
ZeroMetrics(name) == \A m \in Range(metric_names) : results[name][m] = 0

\* the table t is the synthetic table np.random.randn put in place of an extraction
IsFallbackTable(t) == \E i \in DOMAIN t.rows : t.rows[i].src = "randn"

\* some class of the labels y has fewer than 2 members
HasSmallClass(y) == \E c \in Range(y) : Cardinality({i \in DOMAIN y : y[i] = c}) < 2

\* C1: after create_ensemble, each ensemble metric before the offset is the sum
\* of metric * weight over the models present in results, divided by the sum of
\* the weights of the present models only (weights renormalized over the present
\* subset).  The division is stated by cross-multiplication.
C1_RenormalizedOverPresent ==
    last.op = "create_ensemble" =>
        \A m \in Range(metric_names) :
            last.raw[m] * WeightOf(last.present) = WeightedMetricSum(last.present, m)

\* a call of create_ensemble with only part of the weighted models present
C1_PartlyPresent ==
    /\ last.op = "create_ensemble"
    /\ last.present # {}
    /\ last.present # Range(weighted_names)

\* C2: each of the four metrics of the 'Enhanced Ensemble' record is at most 1.0
\* after the offset 0.015 has been added, whatever records are present.
C2_EnsembleAtMostOne ==
    EnsembleName \in DOMAIN results =>
        \A m \in Range(metric_names) : results[EnsembleName][m] <= One

\* create_ensemble has run on records whose weighted sum plus the offset passes 1.0
C2_OffsetPassesOne ==
    /\ last.op = "create_ensemble"
    /\ \E m \in Range(metric_names) :
          /\ last.raw[m] + ensemble_boost > One
          /\ results[EnsembleName][m] = One

\* C3: create_ensemble called while results holds no model record fails, and
\* writes no 'Enhanced Ensemble' record.
C3_NoModelRecordFails ==
    (last.op = "create_ensemble" /\ last.present = {}) =>
        /\ last.raised
        /\ EnsembleName \notin DOMAIN results

\* C4: for each of the eight models, when its fit or scoring raises, the record
\* stored for it has the four metrics 0 and the model handle None, and the
\* training step does not raise.
C4_FailureRecordIsZero ==
    (last.op \in {"train_traditional_models", "train_deep_learning_models"}
        /\ last.fit_raised # {}) =>
        /\ ~last.raised
        /\ \A name \in last.fit_raised :
              /\ ZeroMetrics(name)
              /\ results[name].model = NoneValue

\* the number of samples extract_all_features selects, for the sample_size it
\* was called with
SelectedCount ==
    IF last.sample_size # 0 /\ last.sample_size < Len(dataset.labels)
    THEN last.sample_size
    ELSE Len(dataset.labels)

\* C5: after extract_all_features returns, whatever extractors failed,
\* features_dict holds a table for each of the five model ids, each table has
\* as many rows as samples were selected, and that is the length of
\* encoded_labels.
C5_TablePerIdRowPerSample ==
    (last.op = "extract_all_features" /\ ~last.raised) =>
        /\ DOMAIN features_dict = Range(model_names)
        /\ \A id \in Range(model_names) : Len(features_dict[id].rows) = SelectedCount
        /\ Len(encoded_labels) = SelectedCount

\* extract_all_features has returned for a proper sample of the dataset, with one
\* extractor raising on one row, one on every row, and one on none
C5_MixedFaults ==
    /\ last.op = "extract_all_features"
    /\ ~last.raised
    /\ 1 < Len(encoded_labels)
    /\ Len(encoded_labels) < Len(dataset.labels)
    /\ \E a, b, c \in Range(model_names) :
          /\ last.faults[a] = {1}
          /\ last.faults[b] = DOMAIN last.images
          /\ last.faults[c] = {}

\* C6: when an extractor faults on some but not all rows of a table, every other
\* row of that table keeps its extracted vector; the whole table is the synthetic
\* random table only when every row faults.
C6_PartialFaultKeepsRows ==
    (last.op = "extract_all_features" /\ ~last.raised) =>
        \A id \in Range(model_names) :
            /\ (last.faults[id] # {} /\ last.faults[id] # DOMAIN last.images) =>
                  \A i \in DOMAIN last.images \ last.faults[id] :
                      features_dict[id].rows[i] =
                          [src |-> "extracted", model |-> id, image |-> last.images[i]]
            /\ IsFallbackTable(features_dict[id]) =>
                  last.faults[id] = DOMAIN last.images

\* the model ids whose table is the synthetic random table
FallbackIds == {id \in DOMAIN features_dict : IsFallbackTable(features_dict[id])}

\* C7: when the extractor of one model id failed entirely and the others
\* succeeded, then after training (every classifier fitting) the record of the
\* model trained on the failed id's features has zero metrics, the records of
\* the other models hold a fitted model, and every record present in results
\* is included in the ensemble sum.
C7_FailedExtractorZeroRecord ==
    /\ (/\ last.op = "train_deep_learning_models"
        /\ last.fit_raised = {}
        /\ last.split_raised = {}
        /\ DOMAIN features_dict = Range(model_names)
        /\ Cardinality(FallbackIds) = 1) =>
           \A name \in Range(deep_names) :
               IF FeatureKeyOf(name) \in FallbackIds
               THEN ZeroMetrics(name)
               ELSE results[name].model # NoneValue
    /\ last.op = "create_ensemble" =>
           \A m \in Range(metric_names) :
               last.raw[m] * total_weight = WeightedMetricSum(last.present, m)

\* the facenet split of train_traditional_models succeeds in the current state
FacenetSplitOk ==
    /\ "facenet" \in DOMAIN features_dict
    /\ train_test_split(Len(features_dict["facenet"].rows), encoded_labels, np_random).ok

\* C8: whichever of the eight classifiers raise in fit or predict,
\* train_traditional_models runs to the end whenever its facenet split succeeds
\* and train_deep_learning_models always does, each leaving a record for each of
\* its four names; after both steps results holds a record for each of the
\* eight names.
C8_EveryModelRecorded ==
    /\ last.op = "train_traditional_models" =>
          /\ last.raised <=> ~FacenetSplitOk
          /\ ~last.raised => Range(traditional_names) \subseteq DOMAIN results
    /\ last.op = "train_deep_learning_models" =>
          /\ ~last.raised
          /\ Range(deep_names) \subseteq DOMAIN results
    /\ {"train_traditional_models", "train_deep_learning_models"} \subseteq completed =>
          Range(weighted_names) \subseteq DOMAIN results

\* both training steps have run, the first classifier of each step and one more
\* having raised
C8_SeveralRaised ==
    /\ last.op = "train_deep_learning_models"
    /\ "train_traditional_models" \in completed
    /\ {"Vision Transformer", "ResNeXt"} \subseteq last.fit_raised
    /\ results["k-NN"].model = NoneValue
    /\ results["Random Forest"].model = NoneValue
    /\ results["XGBoost"].model # NoneValue

\* C9: when some class of encoded_labels has fewer than 2 members, a training
\* step fails (the split's error reaches the caller) and stores no record in
\* results.
C9_SmallClassIsFatal ==
    (/\ last.op \in {"train_traditional_models", "train_deep_learning_models"}
     /\ "extract_all_features" \in completed
     /\ HasSmallClass(last.y)) =>
        /\ last.raised
        /\ last.stored = {}

\* C10: any two split calls of a run made with the same row count and the same
\* labels return the same split (the same train rows and the same test rows),
\* whichever operation made the call and whichever table supplied the rows.
C10_SplitDeterminedByRowsAndLabels ==
    \A a, b \in split_log :
        (a.rows = b.rows /\ a.y = b.y) => a.split = b.split

\* the four operations have each split the same labels with success, on the
\* facenet table and on other tables, with the process-wide generator drawn
\* from between two of the calls
C10_SplitsOfEveryOperation ==
    /\ \A op \in {"train_traditional_models", "train_deep_learning_models",
                  "save_model_predictions", "generate_confusion_matrices"} :
          \E e \in split_log : e.by = op /\ e.split.ok /\ e.y = encoded_labels
    /\ \E a, b \in split_log :
          a.table = "facenet" /\ b.table # "facenet" /\ a.y = b.y /\ a.rows = b.rows
    /\ \E name \in Range(deep_names) :
          name \in DOMAIN results /\ results[name].model = NoneValue

\* the test rows of the split e that belong to class c
TestRowsOfClass(e, c) == {i \in DOMAIN e.split.test : e.y[e.split.test[i]] = c}

\* C11: for a corpus of 100 rows in 10 classes of 10 rows each, every split
\* succeeds, its train and test rows are disjoint and together are all 100 rows,
\* there are 80 train rows and 20 test rows, and exactly 2 test rows of every
\* class.
C11_StratifiedEightyTwenty ==
    \A e \in split_log :
        (/\ e.rows = 100
         /\ Len(e.y) = 100
         /\ \A c \in 0..9 : Cardinality({i \in DOMAIN e.y : e.y[i] = c}) = 10) =>
            /\ e.split.ok
            /\ Range(e.split.train) \cap Range(e.split.test) = {}
            /\ Range(e.split.train) \cup Range(e.split.test) = 1..100
            /\ Len(e.split.train) = 80
            /\ Len(e.split.test) = 20
            /\ \A c \in 0..9 : Cardinality(TestRowsOfClass(e, c)) = 2

\* both training steps have split a corpus of 100 rows whose classes are
\* interleaved
C11_InterleavedCorpusSplit ==
    /\ \E e \in split_log :
          e.by = "train_traditional_models" /\ e.rows = 100 /\ e.split.ok
    /\ \E e \in split_log :
          e.by = "train_deep_learning_models" /\ e.rows = 100 /\ e.split.ok
    /\ encoded_labels[1] # encoded_labels[2]

\* the positions of the loaded dataset that hold a sample of the class c
SamplesOfClass(c) == {i \in DOMAIN dataset.labels : dataset.labels[i] = c}

\* the folders of the listing that hold at least one image file
NonEmptyFolders(listing) == {Folders[i] : i \in {k \in DOMAIN listing : listing[k] > 0}}

\* C12: after load_vgg2_dataset, every class has at most max_samples_per_class
\* samples, all of them distinct files of its folder, and exactly
\* max_samples_per_class when its folder held more; there are at most max_classes
\* distinct labels, exactly max_classes when more folders held images; every
\* remaining label is one of class_names; image_paths and labels have the same
\* length and the path at each index lies in the folder of the label at that index.
C12_LoadCapsSamplesAndClasses ==
    (last.op = "load_vgg2_dataset") =>
        /\ Len(dataset.image_paths) = Len(dataset.labels)
        /\ \A i \in DOMAIN dataset.labels :
              /\ dataset.image_paths[i][1] = dataset.labels[i]
              /\ dataset.image_paths[i][2] \in
                     1..last.listing[FolderIndex(dataset.labels[i])]
        /\ \A c \in Range(dataset.labels) :
              /\ Cardinality(SamplesOfClass(c)) <= MaxSamplesPerClass
              /\ Cardinality({dataset.image_paths[i] : i \in SamplesOfClass(c)})
                    = Cardinality(SamplesOfClass(c))
              /\ last.listing[FolderIndex(c)] > MaxSamplesPerClass
                    => Cardinality(SamplesOfClass(c)) = MaxSamplesPerClass
              /\ last.listing[FolderIndex(c)] <= MaxSamplesPerClass
                    => Cardinality(SamplesOfClass(c)) = last.listing[FolderIndex(c)]
        /\ Cardinality(Range(dataset.labels)) <= MaxClasses
        /\ Cardinality(NonEmptyFolders(last.listing)) > MaxClasses
              => Cardinality(Range(dataset.labels)) = MaxClasses
        /\ Cardinality(NonEmptyFolders(last.listing)) <= MaxClasses
              => Range(dataset.labels) = NonEmptyFolders(last.listing)
        /\ Range(dataset.labels) \subseteq Range(dataset.class_names)

\* a load in which more than max_classes folders held images, so that a class was
\* excluded, and a remaining class had held more than max_samples_per_class files
C12_ClassExcludedAndClassCapped ==
    /\ last.op = "load_vgg2_dataset"
    /\ Cardinality(NonEmptyFolders(last.listing)) > MaxClasses
    /\ \E c \in Range(dataset.labels) : last.listing[FolderIndex(c)] > MaxSamplesPerClass
    /\ \E c \in Range(dataset.labels) : last.listing[FolderIndex(c)] = 1

\* C13: a call of load_vgg2_dataset that leaves no sample, hence no class with at
\* least one sample, fails with an error instead of returning the empty dataset.
C13_EmptyCorpusIsFatal ==
    (last.op = "load_vgg2_dataset" /\ dataset.labels = <<>>) =>
        (last.raised /\ "load_vgg2_dataset" \notin completed)

\* C14: in a run of run_complete_analysis, once create_ensemble has returned, the
\* keys of results in insertion order are k-NN, SVM, Random Forest, XGBoost,
\* Vision Transformer, EfficientNet, ResNeXt, DenseNet, Enhanced Ensemble: the
\* declared evaluation order, with the ensemble entry last.
C14_RunInsertsInDeclaredOrder ==
    ("create_ensemble" \in completed) =>
        /\ results_keys = <<"k-NN", "SVM", "Random Forest", "XGBoost",
                            "Vision Transformer", "EfficientNet", "ResNeXt",
                            "DenseNet", "Enhanced Ensemble">>
        /\ DOMAIN results = Range(results_keys)

\* a run that reached create_ensemble although a traditional classifier and a
\* deep-learning classifier had raised
C14_RunWithFailedModels ==
    /\ "create_ensemble" \in completed
    /\ \E a \in Range(traditional_names), b \in Range(deep_names) :
          results[a].model = NoneValue /\ results[b].model = NoneValue

\* the positions of results, in insertion order, whose accuracy is the greatest
MaximalPositions ==
    {k \in DOMAIN results_keys :
        \A j \in DOMAIN results_keys :
            results[results_keys[j]].accuracy <= results[results_keys[k]].accuracy}

\* C15: the best model main selects from results by accuracy is an entry of
\* maximal accuracy and, when several entries share the maximal accuracy, the one
\* of them that was inserted first.
C15_BestIsFirstInsertedMaximum ==
    (last.op = "main" /\ ~last.raised) =>
        \E k \in MaximalPositions :
            /\ last.best_model = results_keys[k]
            /\ \A j \in MaximalPositions : k <= j

\* a selection among results in which the maximal accuracy is shared and the
\* first-inserted entry is not maximal
C15_TieAfterSmallerEntry ==
    /\ last.op = "main" /\ ~last.raised
    /\ Cardinality(MaximalPositions) = 2
    /\ 1 \notin MaximalPositions

\* the term create_ensemble adds to an ensemble metric for the present model `name`
Contribution(name, metric) ==
    (results[name][metric] * model_weights[name]) \div total_weight

\* C16: after create_ensemble on results that hold at least two weighted models,
\* the contributions of any two present models A and B to a metric are in the
\* ratio of their metric * weight products (metrics are whole hundredths of a
\* percent, so the products are compared on that scale), whichever other models
\* are present,
\* and the weights applied to the present models (weight / total_weight) sum to
\* 1.0 of the weight mass, with a model absent as with every model present.
C16_RenormalizationLaw ==
    (last.op = "create_ensemble" /\ Cardinality(last.present) >= 2) =>
        /\ \A a, b \in last.present : \A m \in Range(metric_names) :
              Contribution(a, m) * ((results[b][m] \div 100) * model_weights[b])
                 = Contribution(b, m) * ((results[a][m] \div 100) * model_weights[a])
        /\ WeightOf(last.present) = total_weight

\* the table extract_all_features would store for the model `name` were it the
\* first of the order to be extracted, the generator being as the call found it
\* after sampling
TableExtractedFirst(name) ==
    ExtractStep(name, last.images, Len(dataset.class_names), last.faults,
                [fd |-> EmptyMap, st |-> last.rng]).fd[name]

\* C17: after extract_all_features, the table of every model id is the table the
\* id gets when it is extracted first, so that it depends neither on the position
\* of the id in the order of extraction nor on whether the extraction of another
\* id failed.
C17_TableIndependentOfOtherModels ==
    (last.op = "extract_all_features" /\ ~last.raised) =>
        \A name \in Range(model_names) : features_dict[name] = TableExtractedFirst(name)

\* the id of the raw label l under the codec fitted on every label of the corpus
CorpusId(l) ==
    LET classes == LabelEncoderFit(dataset.labels)
    IN (CHOOSE k \in DOMAIN classes : classes[k] = l) - 1

\* C18: after any call of extract_all_features, whatever sample it drew, the id
\* of every raw label is its id under the codec of the full label set of the
\* corpus, which is the id a call on the whole corpus gives it.
C18_LabelIdsFixedByCorpus ==
    (last.op = "extract_all_features" /\ ~last.raised) =>
        \A i \in DOMAIN original_labels :
            encoded_labels[i] = CorpusId(original_labels[i])

\* the column count of the table the deep-learning classifier `name` is trained on
ColumnsOf(name) == features_dict[model_features[name]].cols

\* C19: every classifier train_deep_learning_models has fitted is the SVC with
\* rbf kernel exactly when its feature table has more than 1000 columns, and the
\* RandomForestClassifier otherwise: at exactly 1000 columns and for the dummy
\* table of 128 columns as well.
C19_ClassifierChosenByColumnCount ==
    \A name \in Range(deep_names) :
        (name \in DOMAIN results /\ results[name].model # NoneValue) =>
            /\ ColumnsOf(name) > 1000 <=> results[name].model = "SVC(rbf)"
            /\ ColumnsOf(name) <= 1000 <=> results[name].model = "RandomForestClassifier"
            /\ IsFallbackTable(features_dict[model_features[name]])
                  => results[name].model = "RandomForestClassifier"

\* classifiers have been fitted on a table of exactly 1000 columns, on a dummy
\* table and on a table of more than 1000 columns
C19_ThresholdFallbackAndWide ==
    \E a, b, c \in Range(deep_names) :
        /\ {a, b, c} \subseteq DOMAIN results
        /\ results[a].model # NoneValue /\ ColumnsOf(a) = 1000
        /\ results[b].model # NoneValue
        /\ IsFallbackTable(features_dict[model_features[b]])
        /\ results[c].model # NoneValue /\ ColumnsOf(c) > 1000

\* the models of results whose record holds a fitted model
FittedModels ==
    {name \in DOMAIN results \ {EnsembleName} : results[name].model # NoneValue}

\* C20: a call of save_model_predictions made when results holds the 'Enhanced
\* Ensemble' entry, and whose split of the facenet table has succeeded, returns
\* without raising, and the prediction columns of its table are exactly the
\* models whose record holds a fitted model, one column each: the ensemble entry
\* and the failed models have none.
C20_SaveAfterEnsembleCompletes ==
    (/\ last.op = "save_model_predictions"
     /\ EnsembleName \in DOMAIN results
     /\ "true_rows" \in DOMAIN last) =>
        /\ ~last.raised
        /\ Range(last.columns) = FittedModels
        /\ Len(last.columns) = Cardinality(FittedModels)

\* C21: a call of generate_confusion_matrices made when results holds the
\* 'Enhanced Ensemble' entry, and whose split of the facenet table has succeeded,
\* does not raise, whichever four entries rank highest by accuracy, the ensemble
\* entry included.
C21_MatricesAfterEnsembleNeverRaise ==
    (/\ last.op = "generate_confusion_matrices"
     /\ EnsembleName \in DOMAIN results
     /\ "top" \in DOMAIN last) =>
        ~last.raised

\* C22: in save_model_predictions, the test rows every prediction column was
\* predicted on are the test rows of the facenet split that gave true_labels: the
\* same sample indices in the same order, for the columns of the deep-learning
\* models, split on their own tables, as for the others, and also when a table
\* is the dummy table.
C22_ColumnsAlignedWithTrueLabels ==
    (last.op = "save_model_predictions" /\ "rows" \in DOMAIN last) =>
        /\ DOMAIN last.rows = Range(last.columns)
        /\ \A name \in DOMAIN last.rows : last.rows[name] = last.true_rows

\* a table of predictions with a column of a traditional model, a column of a
\* deep-learning model trained on an extracted table and a column of one trained
\* on the dummy table, over at least two test rows
C22_ColumnsOfEveryKindOfTable ==
    /\ last.op = "save_model_predictions" /\ "rows" \in DOMAIN last
    /\ Len(last.true_rows) >= 2
    /\ \E t \in Range(traditional_names), a, b \in Range(deep_names) :
          /\ {t, a, b} \subseteq DOMAIN last.rows
          /\ IsFallbackTable(features_dict[model_features[a]])
          /\ ~IsFallbackTable(features_dict[model_features[b]])

\* C23: every call of create_ensemble adds or rewrites the 'Enhanced Ensemble'
\* key and nothing else: the other records of results, the order of the keys
\* already there and every other attribute are unchanged; the metrics it writes
\* are the weighted sum over the model records plus the offset, to which an
\* ensemble entry already present adds nothing; and a call that follows another
\* call of create_ensemble leaves results as they are.
C23_EnsembleIdempotentFrame ==
    [][last'.op = "create_ensemble" =>
          /\ DOMAIN results' = DOMAIN results \cup {EnsembleName}
          /\ \A name \in DOMAIN results \ {EnsembleName} : results'[name] = results[name]
          /\ results_keys' = IF EnsembleName \in Range(results_keys)
                             THEN results_keys
                             ELSE Append(results_keys, EnsembleName)
          /\ UNCHANGED <<np_random, dataset, label_classes, features_dict,
                         encoded_labels, original_labels, split_log>>
          /\ \A m \in Range(metric_names) :
                /\ last'.raw[m] * total_weight
                      = WeightedMetricSum(DOMAIN results \cap Range(weighted_names), m)
                /\ results'[EnsembleName][m] = Min2(One, last'.raw[m] + ensemble_boost)
          /\ last.op = "create_ensemble" => results' = results
      ]_vars

\* create_ensemble has been called on results that already held the ensemble
\* entry, written before some of the model records
C23_EnsembleRewritten ==
    /\ last.op = "create_ensemble"
    /\ Cardinality(last.present) >= 2
    /\ \E i, j \in DOMAIN results_keys :
          i < j /\ results_keys[i] = EnsembleName /\ results_keys[j] # EnsembleName

\* C24: in the summary of main the best accuracy is the greatest accuracy of all
\* the entries of results, the 'Enhanced Ensemble' entry included, so that the
\* improvement it reports, the ensemble accuracy minus the best accuracy, is
\* never greater than 0, and is 0 exactly when no entry has a greater accuracy
\* than the ensemble entry.
C24_ImprovementAtMostZero ==
    (last.op = "main" /\ ~last.raised) =>
        /\ \A name \in DOMAIN results : results[name].accuracy <= last.best_accuracy
        /\ last.improvement = last.ensemble_acc - last.best_accuracy
        /\ last.improvement <= 0
        /\ EnsembleName \in DOMAIN results =>
              /\ last.ensemble_acc = results[EnsembleName].accuracy
              /\ last.improvement = 0 <=>
                    \A name \in DOMAIN results :
                        results[name].accuracy <= results[EnsembleName].accuracy

\* a summary in which the ensemble entry shares the greatest accuracy with a
\* model inserted before it, which is the model reported as best, while another
\* entry has a smaller accuracy
C24_EnsembleTiedWithBest ==
    /\ last.op = "main" /\ ~last.raised
    /\ EnsembleName \in DOMAIN results
    /\ last.best_model # EnsembleName
    /\ last.improvement = 0
    /\ \E name \in DOMAIN results : results[name].accuracy < last.best_accuracy

====
